---- MODULE Spec2Model ----
(***************************************************************************)
(* LambdaDeployer (ac-lambda-deployment): one deploy run against the       *)
(* remote function-management API, as a state machine.  Every await of the *)
(* source is a step; the remote side answers each request with one of the  *)
(* outcomes its API can produce.                                           *)
(***************************************************************************)
EXTENDS Integers, Sequences, FiniteSets, TLC

VARIABLES
    options,     \* constructor options { region, profile }
    config,      \* the configuration loadConfig returns
    lambda,      \* this.lambda: the client's region and profile
    caller,      \* "deploy", or the public method invoked directly
    pc,          \* position of the run
    err,         \* the error being thrown / the run was rejected with
    zip,         \* TRUE while the zip artifact is on disk
    i,           \* updateWithRetry: loop variable
    updateType,  \* updateWithRetry: 'code' or 'configuration'
    result,      \* updateWithRetry: what the last invocation returned
    elapsed,     \* waitForFunctionReady: Date.now() - startTime
    polls,       \* waitForFunctionReady: GetFunction requests it has sent
    triggers,    \* updateEventSourceMappings: the sqsTriggers argument
    existing,    \* updateEventSourceMappings: the listing it fetched
    idx,         \* updateEventSourceMappings: position in the running loop
    remote,      \* the remote function and its event-source mappings
    log,         \* requests sent and backoff waits, in order
    obs          \* what the readiness polls have observed

vars == << options, config, lambda, caller, pc, err, zip, i, updateType, result,
           elapsed, polls, triggers, existing, idx, remote, log, obs >>

----------------------------------------------------------------------------
(* JavaScript values.  An optional value is <<>> (undefined) or <<v>>.     *)

None == << >>
Some(v) == << v >>

\* Truthiness of an optional string, number, object.
Truthy(m) == m # None

\* x || d
OrElse(m, d) == IF Truthy(m) THEN m[1] ELSE d

\* n || d for a number that may be 0
OrElseNum(m, d) == IF m # None /\ m[1] # 0 THEN m[1] ELSE d

\* flag !== false
NotFalse(m) == m # Some(FALSE)

NoError == [name |-> "", message |-> ""]
Error(msg) == [name |-> "Error", message |-> msg]
Conflict == [name |-> "ResourceConflictException", message |-> "update in progress"]
NotFound == [name |-> "ResourceNotFoundException", message |-> "not found"]
Throttled == [name |-> "TooManyRequestsException", message |-> "rate exceeded"]

\* The errors a request to the remote API can fail with.
RemoteErrors == { Conflict, NotFound, Throttled }

----------------------------------------------------------------------------
(* Bounds and program constants.                                           *)

MaxTriggers == 2
MaxMappings == 2
SlowCallMs == 45000
MaxPartial == 1

MaxAttempts == 3
BackoffStepMs == 30000
MaxWaitMs == 120000
PollIntervalMs == 3000

Queues == { "A", "B", "C" }

----------------------------------------------------------------------------
(* Inputs.                                                                 *)

Opt(S) == { None } \cup { Some(v) : v \in S }

PlainTrigger(q) ==
    [ queueArn |-> q, batchSize |-> None, maxBatchingWindow |-> None, enabled |-> None ]

Mapping(u, q) ==
    [ UUID |-> u, EventSourceArn |-> q, BatchSize |-> 1,
      MaximumBatchingWindowInSeconds |-> 3, Enabled |-> TRUE ]

RECURSIVE SeqsNoDup(_, _)
\* The sequences of at most n distinct elements of S.
SeqsNoDup(S, n) ==
    IF n = 0 THEN { << >> }
    ELSE { << >> } \cup
         UNION { { << x >> \o s : s \in SeqsNoDup(S \ {x}, n - 1) } : x \in S }

\* The fields updateFunctionSequential tests before a configuration update.
ConfigFields == { "layers", "environment", "timeout", "memorySize", "description" }

FieldsSet(c) == { f \in ConfigFields : c[f] # None }

\* The configurations of a run: each of the five fields alone, up to
\* MaxPartial of them together, or all of them.
Configs ==
    { c \in [ functionName : Opt({"fn"}),
              roleArn : Opt({"role"}),
              handler : Opt({"index.handler"}),
              runtime : Opt({"nodejs20.x"}),
              description : Opt({"text"}),
              timeout : Opt({60}),
              memorySize : Opt({256}),
              environment : Opt({"env"}),
              layers : Opt({ << "layer1" >> }),
              sqsTriggers : { None, Some(<< >>),
                              Some(<< PlainTrigger("A"), PlainTrigger("B") >>) },
              region : { None },
              profile : { None } ] :
        \/ Cardinality(FieldsSet(c)) <= MaxPartial
        \/ FieldsSet(c) = ConfigFields }

NoFunction == [ exists |-> FALSE, code |-> "none", conf |-> None,
                codeUpdates |-> 0, confUpdates |-> 0, creates |-> 0 ]
OldFunction == [ exists |-> TRUE, code |-> "old", conf |-> None,
                 codeUpdates |-> 0, confUpdates |-> 0, creates |-> 0 ]

Remotes ==
    { [ fn |-> NoFunction, mappings |-> << >>, nextUuid |-> 1 ] } \cup
    { [ fn |-> OldFunction, mappings |-> << Mapping(1, "A"), Mapping(2, "C") >>,
        nextUuid |-> 3 ] }

NoObs == [ ready |-> FALSE, failed |-> FALSE, returnedOn |-> None ]

----------------------------------------------------------------------------
(* The client.                                                             *)

\* constructor: const { region = 'eu-central-1', profile } = options
NewClient(opts) ==
    [ region |-> OrElse(opts.region, "eu-central-1"), profile |-> opts.profile ]

\* deploy: the override of the client by the config's region and profile
OverrideClient(current, cfg) ==
    IF Truthy(cfg.region) \/ Truthy(cfg.profile)
    THEN [ region |-> OrElse(cfg.region, "eu-central-1"), profile |-> cfg.profile ]
    ELSE current

Init ==
    /\ options = [ region |-> None, profile |-> None ]
    /\ config \in Configs
    /\ lambda = NewClient(options)
    /\ caller = "deploy"
    /\ pc = "start"
    /\ err = NoError
    /\ zip = FALSE
    /\ i = 0
    /\ updateType = ""
    /\ result = "none"
    /\ elapsed = 0
    /\ polls = 0
    /\ triggers = << >>
    /\ existing = << >>
    /\ idx = 1
    /\ remote \in Remotes
    /\ log = << >>
    /\ obs = NoObs

----------------------------------------------------------------------------
(* Control.                                                                *)

Entry(cmd, arg, res) == [ cmd |-> cmd, arg |-> arg, res |-> res ]

\* Mutant: deploy goes on to the trigger synchronization after an error.
ThrowToSwallowed(c) == "sync_enter"

\* An error leaves the running method: inside deploy's try block it reaches
\* the finally clause, in a direct call it reaches the caller.
ThrowTo(c) == IF c = "deploy" THEN "finally" ELSE "thrown"
ReturnTo(c) == IF c = "deploy" THEN "finally" ELSE "returned"

\* Mutant: functionName is not required.
DeployStartUnchecked ==
    /\ pc = "start"
    /\ lambda' = OverrideClient(lambda, config)
    /\ pc' = "zip"
    /\ UNCHANGED << options, config, caller, err, zip, i, updateType, result, elapsed,
                    polls, triggers, existing, idx, remote, log, obs >>

\* deploy: load the config, rebind the client, require functionName
DeployStart ==
    /\ pc = "start"
    /\ lambda' = OverrideClient(lambda, config)
    /\ IF ~Truthy(config.functionName)
       THEN /\ pc' = "failed"
            /\ err' = Error("functionName is required in configuration")
       ELSE /\ pc' = "zip"
            /\ err' = err
    /\ UNCHANGED << options, config, caller, zip, i, updateType, result, elapsed,
                    polls, triggers, existing, idx, remote, log, obs >>

\* deploy: await this.createZip(...).  A failed archive rejects before the
\* try block; the output file was opened and may be left behind.
CreateZip ==
    /\ pc = "zip"
    /\ \/ /\ zip' = TRUE
          /\ pc' = "exists_query"
          /\ err' = err
       \/ /\ zip' \in BOOLEAN
          /\ pc' = "failed"
          /\ err' = Error("archive error")
    /\ UNCHANGED << options, config, lambda, caller, i, updateType, result, elapsed,
                    polls, triggers, existing, idx, remote, log, obs >>


----------------------------------------------------------------------------
(* Request parameters.                                                     *)

\* Mutant: the timeout's default mistyped.
CreateParamsShortTimeout(cfg) ==
    [ FunctionName |-> cfg.functionName,
      Runtime |-> OrElse(cfg.runtime, "nodejs22.x"),
      Role |-> cfg.roleArn,
      Handler |-> OrElse(cfg.handler, "lambda.handler"),
      Code |-> "zip",
      Description |-> OrElse(cfg.description, "Deployed with lambda-deployer"),
      Timeout |-> OrElseNum(cfg.timeout, 3),
      MemorySize |-> OrElseNum(cfg.memorySize, 128),
      Environment |-> IF Truthy(cfg.environment)
                      THEN Some([ Variables |-> cfg.environment[1] ]) ELSE None,
      Layers |-> OrElse(cfg.layers, << >>) ]

\* createFunction: params
CreateParams(cfg) ==
    [ FunctionName |-> cfg.functionName,
      Runtime |-> OrElse(cfg.runtime, "nodejs22.x"),
      Role |-> cfg.roleArn,
      Handler |-> OrElse(cfg.handler, "lambda.handler"),
      Code |-> "zip",
      Description |-> OrElse(cfg.description, "Deployed with lambda-deployer"),
      Timeout |-> OrElseNum(cfg.timeout, 30),
      MemorySize |-> OrElseNum(cfg.memorySize, 128),
      Environment |-> IF Truthy(cfg.environment)
                      THEN Some([ Variables |-> cfg.environment[1] ]) ELSE None,
      Layers |-> OrElse(cfg.layers, << >>) ]

\* updateFunctionSequential: codeParams
CodeParams(cfg) == [ FunctionName |-> cfg.functionName, ZipFile |-> "zip" ]

\* updateFunctionSequential: configParams
ConfigParams(cfg) ==
    [ FunctionName |-> cfg.functionName,
      Runtime |-> OrElse(cfg.runtime, "nodejs18.x"),
      Handler |-> OrElse(cfg.handler, "lambda.handler"),
      Description |-> cfg.description,
      Timeout |-> OrElseNum(cfg.timeout, 30),
      MemorySize |-> OrElseNum(cfg.memorySize, 128),
      Environment |-> IF Truthy(cfg.environment)
                      THEN Some([ Variables |-> cfg.environment[1] ]) ELSE None,
      Layers |-> OrElse(cfg.layers, << >>) ]

\* updateFunctionSequential: the test that gates the configuration update
ConfigAffecting(cfg) ==
    \/ Truthy(cfg.layers)
    \/ Truthy(cfg.environment)
    \/ (cfg.timeout # None /\ cfg.timeout[1] # 0)
    \/ (cfg.memorySize # None /\ cfg.memorySize[1] # 0)
    \/ Truthy(cfg.description)

\* Mutant: enabled is sent as the flag's truthiness.
TriggerSettingsEnabledTruthy(t) ==
    [ BatchSize |-> OrElseNum(t.batchSize, 10),
      MaximumBatchingWindowInSeconds |-> OrElseNum(t.maxBatchingWindow, 0),
      Enabled |-> (t.enabled = Some(TRUE)) ]

\* updateEventSourceMappings: the settings sent with an update or a create
TriggerSettings(t) ==
    [ BatchSize |-> OrElseNum(t.batchSize, 10),
      MaximumBatchingWindowInSeconds |-> OrElseNum(t.maxBatchingWindow, 0),
      Enabled |-> NotFalse(t.enabled) ]

----------------------------------------------------------------------------
(* The remote side: what a successful request does.  A request that fails  *)
(* changes nothing.                                                        *)

Created(r, params) ==
    [ r EXCEPT !.fn = [ exists |-> TRUE, code |-> params.Code, conf |-> Some(params),
                        codeUpdates |-> 0, confUpdates |-> 0,
                        creates |-> r.fn.creates + 1 ] ]

CodeUpdated(r, params) ==
    [ r EXCEPT !.fn.code = params.ZipFile, !.fn.codeUpdates = @ + 1 ]

ConfigUpdated(r, params) ==
    [ r EXCEPT !.fn.conf = Some(params), !.fn.confUpdates = @ + 1 ]

MappingUpdated(r, uuid, s) ==
    [ r EXCEPT !.mappings =
        [ k \in DOMAIN @ |->
            IF @[k].UUID = uuid
            THEN [ @[k] EXCEPT !.BatchSize = s.BatchSize,
                               !.MaximumBatchingWindowInSeconds =
                                   s.MaximumBatchingWindowInSeconds,
                               !.Enabled = s.Enabled ]
            ELSE @[k] ] ]

MappingCreated(r, arn, s) ==
    [ r EXCEPT !.mappings = Append(@,
                   [ UUID |-> r.nextUuid, EventSourceArn |-> arn,
                     BatchSize |-> s.BatchSize,
                     MaximumBatchingWindowInSeconds |-> s.MaximumBatchingWindowInSeconds,
                     Enabled |-> s.Enabled ]),
               !.nextUuid = @ + 1 ]

MappingDeleted(r, uuid) ==
    [ r EXCEPT !.mappings = SelectSeq(@, LAMBDA m : m.UUID # uuid) ]

----------------------------------------------------------------------------
(* deploy: existence query, create path.                                   *)

\* Mutant: the role is not required.
RoleMissingSkipped(cfg) == FALSE

\* deploy: if (!roleArn) on the create path
RoleMissing(cfg) == ~Truthy(cfg.roleArn)

\* Mutant: every failure of the query reads as "function absent".
AbsentSignalAnyError(e) == TRUE

\* functionExists: err.name === 'ResourceNotFoundException'
AbsentSignal(e) == e.name = "ResourceNotFoundException"

\* deploy: await this.functionExists(functionName), and the synchronous code
\* that follows it on either branch
FunctionExists ==
    /\ pc = "exists_query"
    /\ \/ /\ remote.fn.exists
          /\ log' = Append(log, Entry("GetFunction", "exists", "ok"))
          /\ pc' = "retry_send"
          /\ updateType' = "code"
          /\ err' = err
       \/ \E e \in RemoteErrors :
          /\ e = NotFound => ~remote.fn.exists
          /\ log' = Append(log, Entry("GetFunction", "exists", e.name))
          /\ updateType' = updateType
          /\ IF AbsentSignal(e)
             THEN IF RoleMissing(config)
                  THEN /\ pc' = ThrowTo(caller)
                       /\ err' = Error("roleArn is required for creating new functions")
                  ELSE /\ pc' = "create_send"
                       /\ err' = err
             ELSE /\ pc' = ThrowTo(caller)
                  /\ err' = e
    /\ i' = 0
    /\ UNCHANGED << options, config, lambda, caller, zip, result, elapsed, polls,
                    triggers, existing, idx, remote, obs >>

\* deploy: await this.createFunction({ ...config, zipPath })
CreateFunction ==
    /\ pc = "create_send"
    /\ \/ /\ log' = Append(log, Entry("CreateFunction", CreateParams(config), "ok"))
          /\ remote' = Created(remote, CreateParams(config))
          /\ pc' = "sync_enter"
          /\ err' = err
       \/ \E e \in RemoteErrors :
          /\ log' = Append(log, Entry("CreateFunction", CreateParams(config), e.name))
          /\ remote' = remote
          /\ pc' = ThrowTo(caller)
          /\ err' = e
    /\ UNCHANGED << options, config, lambda, caller, zip, i, updateType, result,
                    elapsed, polls, triggers, existing, idx, obs >>

----------------------------------------------------------------------------
(* updateWithRetry.                                                        *)

Command(type) ==
    IF type = "code" THEN "UpdateFunctionCode" ELSE "UpdateFunctionConfiguration"

Params(type, cfg) ==
    IF type = "code" THEN CodeParams(cfg) ELSE ConfigParams(cfg)

Applied(r, type, cfg) ==
    IF type = "code" THEN CodeUpdated(r, CodeParams(cfg))
    ELSE ConfigUpdated(r, ConfigParams(cfg))

\* Mutant: every error is retried.
ShouldRetryAnyError(e, n) == n < 2

\* Mutant: the attempt bound of the catch clause off by one.
ShouldRetryOffByOne(e, n) == e.name = "ResourceConflictException" /\ n < 3

\* updateWithRetry: the catch clause's test for another attempt
ShouldRetry(e, n) == e.name = "ResourceConflictException" /\ n < 2

\* Mutant: the same wait before every retry.
WaitTimeFlat(n) == BackoffStepMs

\* updateWithRetry: waitTime
WaitTime(n) == (n + 1) * BackoffStepMs

\* Mutant: the readiness wait and the configuration update are not gated.
AfterUpdateUngated(type, cfg) ==
    IF type = "code" THEN "poll_send" ELSE "sync_enter"

\* Mutant: the trigger synchronization follows the code update at once.
AfterUpdateStraightToSync(type, cfg) == "sync_enter"

\* Where the caller goes on when updateWithRetry has returned:
\* updateFunctionSequential after the code update, after the configuration update
AfterUpdate(type, cfg) ==
    IF type = "code" /\ ConfigAffecting(cfg) THEN "poll_send" ELSE "sync_enter"

\* updateWithRetry: one attempt, await this.lambda.send(command)
RetrySend ==
    /\ pc = "retry_send"
    /\ \/ /\ log' = Append(log, Entry(Command(updateType), Params(updateType, config), "ok"))
          /\ remote' = Applied(remote, updateType, config)
          /\ result' = "ok"
          /\ pc' = AfterUpdate(updateType, config)
          /\ err' = err
       \/ \E e \in RemoteErrors :
          /\ log' = Append(log, Entry(Command(updateType), Params(updateType, config), e.name))
          /\ remote' = remote
          /\ result' = result
          /\ IF ShouldRetry(e, i)
             THEN /\ pc' = "retry_wait"
                  /\ err' = err
             ELSE /\ pc' = ThrowTo(caller)
                  /\ err' = e
    /\ UNCHANGED << options, config, lambda, caller, zip, i, updateType, elapsed,
                    polls, triggers, existing, idx, obs >>

\* Mutant: the loop variable is not advanced.
RetryWaitNoIncrement ==
    /\ pc = "retry_wait"
    /\ log' = Append(log, Entry("wait", WaitTime(i), "ok"))
    /\ pc' = "retry_send"
    /\ UNCHANGED << options, config, lambda, caller, err, zip, i, updateType, result,
                    elapsed, polls, triggers, existing, idx, remote, obs >>

\* Mutant: continue without the backoff wait.
RetryWaitSkipped ==
    /\ pc = "retry_wait"
    /\ i' = i + 1
    /\ IF i' < MaxAttempts
       THEN /\ pc' = "retry_send"
            /\ result' = result
       ELSE /\ pc' = AfterUpdate(updateType, config)
            /\ result' = "undefined"
    /\ UNCHANGED << options, config, lambda, caller, err, zip, updateType, elapsed,
                    polls, triggers, existing, idx, remote, log, obs >>

\* updateWithRetry: the backoff wait, continue, and the loop's test
RetryWait ==
    /\ pc = "retry_wait"
    /\ log' = Append(log, Entry("wait", WaitTime(i), "ok"))
    /\ i' = i + 1
    /\ IF i' < MaxAttempts
       THEN /\ pc' = "retry_send"
            /\ result' = result
       ELSE /\ pc' = AfterUpdate(updateType, config)
            /\ result' = "undefined"
    /\ UNCHANGED << options, config, lambda, caller, err, zip, updateType, elapsed,
                    polls, triggers, existing, idx, remote, obs >>

----------------------------------------------------------------------------
(* waitForFunctionReady.                                                   *)

PollResponses ==
    [ State : { "Pending", "Active", "Failed", "Inactive", "undefined" },
      LastUpdateStatus : { "Successful", "Failed", "InProgress", "undefined" },
      error : { NoError } ]
    \cup
    [ State : { "undefined" }, LastUpdateStatus : { "undefined" }, error : RemoteErrors ]

\* Mutant: ready on State alone.
PollOutcomeStateOnly(r) ==
    IF r.error = NoError
    THEN IF r.State = "Active" THEN "return"
         ELSE IF r.LastUpdateStatus = "Failed" THEN "throw"
         ELSE "sleep"
    ELSE IF r.error.message = "Previous update failed" THEN "throw" ELSE "sleep"

\* Mutant: a Failed status is polled through.
PollOutcomeFailedIgnored(r) ==
    IF r.error = NoError
    THEN IF r.State = "Active" /\ r.LastUpdateStatus = "Successful" THEN "return"
         ELSE "sleep"
    ELSE "sleep"

\* Mutant: a failed query ends the wait normally.
PollOutcomeErrorReturns(r) ==
    IF r.error = NoError
    THEN IF r.State = "Active" /\ r.LastUpdateStatus = "Successful" THEN "return"
         ELSE IF r.LastUpdateStatus = "Failed" THEN "throw"
         ELSE "sleep"
    ELSE "return"

\* Mutant: a failed query is propagated.
PollOutcomeErrorThrows(r) ==
    IF r.error = NoError
    THEN IF r.State = "Active" /\ r.LastUpdateStatus = "Successful" THEN "return"
         ELSE IF r.LastUpdateStatus = "Failed" THEN "throw"
         ELSE "sleep"
    ELSE "throw"

\* waitForFunctionReady: the body of the loop's try/catch
PollOutcome(r) ==
    IF r.error = NoError
    THEN IF r.State = "Active" /\ r.LastUpdateStatus = "Successful" THEN "return"
         ELSE IF r.LastUpdateStatus = "Failed" THEN "throw"
         ELSE "sleep"
    ELSE IF r.error.message = "Previous update failed" THEN "throw" ELSE "sleep"

\* What a poll's answer shows, whatever the poller makes of it.
ShowsReady(r) ==
    r.error = NoError /\ r.State = "Active" /\ r.LastUpdateStatus = "Successful"
ShowsFailed(r) == r.error = NoError /\ r.LastUpdateStatus = "Failed"

Observed(o, r, returned) ==
    [ ready |-> o.ready \/ ShowsReady(r),
      failed |-> o.failed \/ ShowsFailed(r),
      returnedOn |-> IF returned THEN Some(r) ELSE o.returnedOn ]

\* The log holds a run of consecutive readiness polls once.
PollLogged(l) ==
    IF l # << >> /\ l[Len(l)].cmd = "GetFunction" /\ l[Len(l)].arg = "poll"
    THEN l
    ELSE Append(l, Entry("GetFunction", "poll", "sent"))

\* waitForFunctionReady: one poll, await this.lambda.send(new GetFunctionCommand),
\* and on a normal return the caller's code up to its next request
PollSend ==
    /\ pc = "poll_send"
    /\ log' = PollLogged(log)
    /\ \E r \in PollResponses :
          /\ obs' = Observed(obs, r, PollOutcome(r) = "return")
          /\ CASE PollOutcome(r) = "return" ->
                    /\ pc' = "retry_send"
                    /\ updateType' = "configuration"
                    /\ i' = 0
                    /\ err' = err
                    /\ elapsed' = 0
                    /\ polls' = 0
               [] PollOutcome(r) = "throw" ->
                    /\ pc' = ThrowTo(caller)
                    /\ err' = Error("Previous update failed")
                    /\ elapsed' = 0
                    /\ polls' = 0
                    /\ UNCHANGED << updateType, i >>
               [] OTHER ->
                    /\ pc' = "poll_sleep"
                    /\ \E d \in { 0, SlowCallMs } : elapsed' = elapsed + d
                    /\ polls' = polls + 1
                    /\ UNCHANGED << updateType, i, err >>
    /\ UNCHANGED << options, config, lambda, caller, zip, result, triggers, existing,
                    idx, remote >>

\* Mutant: when the maximum wait has elapsed the poller returns normally.
PollSleepReturnsOnExpiry ==
    /\ pc = "poll_sleep"
    /\ IF elapsed + PollIntervalMs < MaxWaitMs
       THEN /\ pc' = "poll_send"
            /\ elapsed' = elapsed + PollIntervalMs
            /\ polls' = polls
            /\ UNCHANGED << updateType, i >>
       ELSE /\ pc' = "retry_send"
            /\ updateType' = "configuration"
            /\ i' = 0
            /\ elapsed' = 0
            /\ polls' = 0
    /\ UNCHANGED << options, config, lambda, caller, err, zip, result,
                    triggers, existing, idx, remote, log, obs >>

\* Mutant: the loop tests the time elapsed before the wait, not after it.
PollSleepTestsBeforeWait ==
    /\ pc = "poll_sleep"
    /\ IF elapsed < MaxWaitMs
       THEN /\ pc' = "poll_send"
            /\ elapsed' = elapsed + PollIntervalMs
            /\ polls' = polls
            /\ err' = err
       ELSE /\ pc' = ThrowTo(caller)
            /\ elapsed' = 0
            /\ polls' = 0
            /\ err' = Error("Timeout waiting for function to be ready")
    /\ UNCHANGED << options, config, lambda, caller, zip, i, updateType, result,
                    triggers, existing, idx, remote, log, obs >>

\* waitForFunctionReady: the wait between two polls and the loop's test
PollSleep ==
    /\ pc = "poll_sleep"
    /\ IF elapsed + PollIntervalMs < MaxWaitMs
       THEN /\ pc' = "poll_send"
            /\ elapsed' = elapsed + PollIntervalMs
            /\ polls' = polls
            /\ err' = err
       ELSE /\ pc' = ThrowTo(caller)
            /\ elapsed' = 0
            /\ polls' = 0
            /\ err' = Error("Timeout waiting for function to be ready")
    /\ UNCHANGED << options, config, lambda, caller, zip, i, updateType, result,
                    triggers, existing, idx, remote, log, obs >>

----------------------------------------------------------------------------
(* updateEventSourceMappings.                                              *)

\* Mutant: the listing is read as empty.
ListedEmpty(ex) == << >>

\* existing.EventSourceMappings || []
Listed(ex) == OrElse(ex, << >>)

\* Mutant: the lookup finds nothing.
FindMappingNone(ms, arn) == 0

\* existing.EventSourceMappings?.find(m => m.EventSourceArn === trigger.queueArn):
\* the position of the first match, 0 when there is none
FindMapping(ms, arn) ==
    LET hits == { k \in DOMAIN ms : ms[k].EventSourceArn = arn }
    IN  IF hits = {} THEN 0 ELSE CHOOSE k \in hits : \A h \in hits : k <= h

\* sqsTriggers.map(t => t.queueArn)
ConfiguredArns(ts) == { ts[k].queueArn : k \in DOMAIN ts }

\* Mutant: the removal loop finds nothing to remove.
ToDeleteNothing(ms, ts, n) == { }

\* The mappings from position n on that the removal loop will delete.
ToDelete(ms, ts, n) ==
    { k \in DOMAIN ms : k >= n /\ ms[k].EventSourceArn \notin ConfiguredArns(ts) }

\* deploy: if (config.sqsTriggers) await this.updateEventSourceMappings(...)
AfterReconcile ==
    /\ pc = "sync_enter"
    /\ IF Truthy(config.sqsTriggers)
       THEN /\ triggers' = config.sqsTriggers[1]
            /\ pc' = "sync_call"
       ELSE /\ triggers' = triggers
            /\ pc' = "finally"
    /\ UNCHANGED << options, config, lambda, caller, err, zip, i, updateType, result,
                    elapsed, polls, existing, idx, remote, log, obs >>

\* Mutant: no early return on an empty list.
SyncCallNoEarlyReturn ==
    /\ pc = "sync_call"
    /\ pc' = "list_send"
    /\ UNCHANGED << options, config, lambda, caller, err, zip, i, updateType, result,
                    elapsed, polls, triggers, existing, idx, remote, log, obs >>

\* updateEventSourceMappings: if (sqsTriggers.length === 0) return
SyncCall ==
    /\ pc = "sync_call"
    /\ pc' = IF Len(triggers) = 0 THEN ReturnTo(caller) ELSE "list_send"
    /\ UNCHANGED << options, config, lambda, caller, err, zip, i, updateType, result,
                    elapsed, polls, triggers, existing, idx, remote, log, obs >>

\* updateEventSourceMappings: const existing = await this.lambda.send(listCommand)
ListMappings ==
    /\ pc = "list_send"
    /\ \/ /\ log' = Append(log, Entry("ListEventSourceMappings", "fn", "ok"))
          /\ existing' \in { Some(remote.mappings) } \cup
                           (IF remote.mappings = << >> THEN { None } ELSE { })
          /\ pc' = "sync_loop"
          /\ err' = err
       \/ \E e \in RemoteErrors :
          /\ log' = Append(log, Entry("ListEventSourceMappings", "fn", e.name))
          /\ existing' = existing
          /\ pc' = ThrowTo(caller)
          /\ err' = e
    /\ idx' = 1
    /\ UNCHANGED << options, config, lambda, caller, zip, i, updateType, result,
                    elapsed, polls, triggers, remote, obs >>

\* Mutant: the loop takes the configured triggers last to first.
SyncTriggerReversed ==
    /\ pc = "sync_loop"
    /\ LET trigger == triggers[Len(triggers) + 1 - idx]
           found == FindMapping(Listed(existing), trigger.queueArn)
           cmd == IF found # 0 THEN "UpdateEventSourceMapping"
                  ELSE "CreateEventSourceMapping"
           arg == [ queue |-> trigger.queueArn,
                    UUID |-> IF found # 0 THEN Listed(existing)[found].UUID ELSE 0,
                    FunctionName |-> IF found # 0 THEN None ELSE config.functionName,
                    settings |-> TriggerSettings(trigger) ]
       IN  \/ /\ log' = Append(log, Entry(cmd, arg, "ok"))
              /\ remote' = IF found # 0
                           THEN MappingUpdated(remote, arg.UUID, arg.settings)
                           ELSE MappingCreated(remote, trigger.queueArn, arg.settings)
              /\ idx' = IF idx = Len(triggers) THEN 1 ELSE idx + 1
              /\ pc' = IF idx = Len(triggers) THEN "sync_delete" ELSE "sync_loop"
              /\ err' = err
           \/ \E e \in RemoteErrors :
              /\ log' = Append(log, Entry(cmd, arg, e.name))
              /\ remote' = remote
              /\ idx' = idx
              /\ pc' = ThrowTo(caller)
              /\ err' = e
    /\ UNCHANGED << options, config, lambda, caller, zip, i, updateType, result,
                    elapsed, polls, triggers, existing, obs >>

\* updateEventSourceMappings: one round of the loop over sqsTriggers
SyncTrigger ==
    /\ pc = "sync_loop"
    /\ LET trigger == triggers[idx]
           found == FindMapping(Listed(existing), trigger.queueArn)
           cmd == IF found # 0 THEN "UpdateEventSourceMapping"
                  ELSE "CreateEventSourceMapping"
           arg == [ queue |-> trigger.queueArn,
                    UUID |-> IF found # 0 THEN Listed(existing)[found].UUID ELSE 0,
                    FunctionName |-> IF found # 0 THEN None ELSE config.functionName,
                    settings |-> TriggerSettings(trigger) ]
       IN  \/ /\ log' = Append(log, Entry(cmd, arg, "ok"))
              /\ remote' = IF found # 0
                           THEN MappingUpdated(remote, arg.UUID, arg.settings)
                           ELSE MappingCreated(remote, trigger.queueArn, arg.settings)
              /\ idx' = IF idx = Len(triggers) THEN 1 ELSE idx + 1
              /\ pc' = IF idx = Len(triggers) THEN "sync_delete" ELSE "sync_loop"
              /\ err' = err
           \/ \E e \in RemoteErrors :
              /\ log' = Append(log, Entry(cmd, arg, e.name))
              /\ remote' = remote
              /\ idx' = idx
              /\ pc' = ThrowTo(caller)
              /\ err' = e
    /\ UNCHANGED << options, config, lambda, caller, zip, i, updateType, result,
                    elapsed, polls, triggers, existing, obs >>

\* updateEventSourceMappings: the loop that removes mappings not in the config
SyncDelete ==
    /\ pc = "sync_delete"
    /\ LET ms == Listed(existing)
           rest == ToDelete(ms, triggers, idx)
       IN  IF rest = {}
           THEN /\ pc' = ReturnTo(caller)
                /\ UNCHANGED << log, remote, idx, err >>
           ELSE LET k == CHOOSE n \in rest : \A m \in rest : n <= m
                    arg == [ queue |-> ms[k].EventSourceArn, UUID |-> ms[k].UUID,
                             settings |-> None ]
                IN  \/ /\ log' = Append(log, Entry("DeleteEventSourceMapping", arg, "ok"))
                       /\ remote' = MappingDeleted(remote, ms[k].UUID)
                       /\ idx' = k + 1
                       /\ pc' = "sync_delete"
                       /\ err' = err
                    \/ \E e \in RemoteErrors :
                       /\ log' = Append(log, Entry("DeleteEventSourceMapping", arg, e.name))
                       /\ remote' = remote
                       /\ idx' = idx
                       /\ pc' = ThrowTo(caller)
                       /\ err' = e
    /\ UNCHANGED << options, config, lambda, caller, zip, i, updateType, result,
                    elapsed, polls, triggers, existing, obs >>

\* Mutant: the artifact is removed on the success path only.
CleanupOnSuccessOnly ==
    /\ pc = "finally"
    /\ zip' = IF err = NoError THEN FALSE ELSE zip
    /\ pc' = IF err = NoError THEN "done" ELSE "failed"
    /\ UNCHANGED << options, config, lambda, caller, err, i, updateType, result,
                    elapsed, polls, triggers, existing, idx, remote, log, obs >>

\* deploy: finally { if (fs.existsSync(zipPath)) fs.unlinkSync(zipPath) }
Cleanup ==
    /\ pc = "finally"
    /\ zip' = FALSE
    /\ pc' = IF err = NoError THEN "done" ELSE "failed"
    /\ UNCHANGED << options, config, lambda, caller, err, i, updateType, result,
                    elapsed, polls, triggers, existing, idx, remote, log, obs >>

Next ==
    \/ DeployStart
    \/ CreateZip
    \/ FunctionExists
    \/ CreateFunction
    \/ RetrySend
    \/ RetryWait
    \/ PollSend
    \/ PollSleep
    \/ AfterReconcile
    \/ SyncCall
    \/ ListMappings
    \/ SyncTrigger
    \/ SyncDelete
    \/ Cleanup

Spec == Init /\ [][Next]_vars

\* The same run when every awaited request is answered and every timer
\* fires: a step that can be taken is taken.
SpecFair == Spec /\ WF_vars(Next)

----------------------------------------------------------------------------
(* The deploy run of a deployer constructed with options, as the CLI does  *)
(* with --region and --profile, on a config that may name a region and a   *)
(* profile of its own.                                                     *)

ClientOptions == [ region : Opt({ "us-east-1" }), profile : Opt({ "cli-profile" }) ]

\* One full configuration, with each choice of region and profile.
ClientConfigs ==
    { [ c EXCEPT !.region = r, !.profile = p ] :
        c \in { b \in Configs : /\ Truthy(b.functionName)
                                /\ Truthy(b.roleArn)
                                /\ b.handler = None
                                /\ b.runtime = None
                                /\ FieldsSet(b) = ConfigFields
                                /\ Truthy(b.sqsTriggers)
                                /\ b.sqsTriggers # Some(<< >>) },
        r \in Opt({ "eu-west-1" }),
        p \in Opt({ "config-profile" }) }

InitClient ==
    /\ options \in ClientOptions
    /\ config \in ClientConfigs
    /\ lambda = NewClient(options)
    /\ caller = "deploy"
    /\ pc = "start"
    /\ err = NoError
    /\ zip = FALSE
    /\ i = 0
    /\ updateType = ""
    /\ result = "none"
    /\ elapsed = 0
    /\ polls = 0
    /\ triggers = << >>
    /\ existing = << >>
    /\ idx = 1
    /\ remote \in Remotes
    /\ log = << >>
    /\ obs = NoObs

SpecClient == InitClient /\ [][Next]_vars

----------------------------------------------------------------------------
(* A direct call of updateEventSourceMappings(functionName, sqsTriggers).  *)

\* The settings a configured trigger may carry.
SettingChoices ==
    { [ batchSize |-> None, maxBatchingWindow |-> None, enabled |-> None ],
      [ batchSize |-> Some(5), maxBatchingWindow |-> Some(7), enabled |-> Some(TRUE) ],
      [ batchSize |-> None, maxBatchingWindow |-> Some(0), enabled |-> Some(FALSE) ],
      [ batchSize |-> Some(5), maxBatchingWindow |-> None, enabled |-> Some(FALSE) ] }

TriggerOf(q, s) ==
    [ queueArn |-> q, batchSize |-> s.batchSize,
      maxBatchingWindow |-> s.maxBatchingWindow, enabled |-> s.enabled ]

\* Configured trigger lists: at most MaxTriggers triggers, each queue once.
TriggerLists ==
    UNION { { [ k \in DOMAIN qs |-> TriggerOf(qs[k], ss[k]) ] :
                ss \in [ DOMAIN qs -> SettingChoices ] } :
            qs \in SeqsNoDup(Queues, MaxTriggers) }

\* Remote mapping lists: at most MaxMappings mappings, each queue once.
MappingLists ==
    { [ k \in DOMAIN qs |-> Mapping(k, qs[k]) ] : qs \in SeqsNoDup(Queues, MaxMappings) }

InitSync ==
    /\ options = [ region |-> None, profile |-> None ]
    /\ config = [ functionName |-> Some("fn"), roleArn |-> None, handler |-> None,
                  runtime |-> None, description |-> None, timeout |-> None,
                  memorySize |-> None, environment |-> None, layers |-> None,
                  sqsTriggers |-> None, region |-> None, profile |-> None ]
    /\ lambda = NewClient(options)
    /\ caller = "updateEventSourceMappings"
    /\ pc = "sync_call"
    /\ err = NoError
    /\ zip = FALSE
    /\ i = 0
    /\ updateType = ""
    /\ result = "none"
    /\ elapsed = 0
    /\ polls = 0
    /\ triggers \in TriggerLists
    /\ existing = << >>
    /\ idx = 1
    /\ \E ms \in MappingLists :
          remote = [ fn |-> OldFunction, mappings |-> ms, nextUuid |-> Len(ms) + 1 ]
    /\ log = << >>
    /\ obs = NoObs

NextSync ==
    \/ SyncCall
    \/ ListMappings
    \/ SyncTrigger
    \/ SyncDelete

SpecSync == InitSync /\ [][NextSync]_vars

----------------------------------------------------------------------------
(* updateEventSourceMappings called a second time with the same arguments, *)
(* right after a call over a non-empty list that returned.  The log marks  *)
(* the second call with the remote mappings it starts from.                *)

CallAgain ==
    /\ caller = "updateEventSourceMappings"
    /\ pc = "returned"
    /\ triggers # << >>
    /\ \A k \in DOMAIN log : log[k].cmd # "call"
    /\ log' = Append(log, Entry("call", remote.mappings, "second"))
    /\ pc' = "sync_call"
    /\ existing' = << >>
    /\ idx' = 1
    /\ UNCHANGED << options, config, lambda, caller, err, zip, i, updateType, result,
                    elapsed, polls, triggers, remote, obs >>

NextSyncTwice ==
    \/ SyncCall
    \/ ListMappings
    \/ SyncTrigger
    \/ SyncDelete
    \/ CallAgain

SpecSyncTwice == InitSync /\ [][NextSyncTwice]_vars

----------------------------------------------------------------------------
(* The same call with any sqsTriggers array a config file can hold: the    *)
(* code does not look at the list before it loops over it, so an entry may *)
(* name the queue of an earlier entry.                                     *)

AnyTriggerLists ==
    UNION { { [ k \in 1..n |-> PlainTrigger(qs[k]) ] : qs \in [ 1..n -> Queues ] } :
            n \in 1..MaxTriggers }

InitSyncAny ==
    /\ options = [ region |-> None, profile |-> None ]
    /\ config = [ functionName |-> Some("fn"), roleArn |-> None, handler |-> None,
                  runtime |-> None, description |-> None, timeout |-> None,
                  memorySize |-> None, environment |-> None, layers |-> None,
                  sqsTriggers |-> None, region |-> None, profile |-> None ]
    /\ lambda = NewClient(options)
    /\ caller = "updateEventSourceMappings"
    /\ pc = "sync_call"
    /\ err = NoError
    /\ zip = FALSE
    /\ i = 0
    /\ updateType = ""
    /\ result = "none"
    /\ elapsed = 0
    /\ polls = 0
    /\ triggers \in AnyTriggerLists
    /\ existing = << >>
    /\ idx = 1
    /\ \E ms \in MappingLists :
          remote = [ fn |-> OldFunction, mappings |-> ms, nextUuid |-> Len(ms) + 1 ]
    /\ log = << >>
    /\ obs = NoObs

SpecSyncAny == InitSyncAny /\ [][NextSync]_vars

----------------------------------------------------------------------------
(* The older generation of the update path: updateFunction and             *)
(* updateFunctionConfig, each with its own retry loop, as the older deploy *)
(* calls them.  That deploy is the current one but for its update branch;  *)
(* a run is taken up where the branch begins: the existence query has      *)
(* answered, the zip is on disk.                                           *)

\* try { return this.lambda.send(command) } catch (err) { ... }: whether a
\* rejection of the promise send returns enters the catch clause.  The
\* promise is returned, not awaited, so it settles the caller's promise
\* after the try block has been left.
OldSendAwaited == FALSE

\* The catch clause's test for another attempt, for the errors that reach it.
OldShouldRetry(e, n) ==
    OldSendAwaited /\ e.name = "ResourceConflictException" /\ n < 2

\* The fixed waits of the two loops.
OldWaitTime(type) == IF type = "code" THEN 30000 ELSE 20000

\* updateFunctionConfig: params
OldConfigParams(cfg) ==
    [ FunctionName |-> cfg.functionName,
      Runtime |-> cfg.runtime,
      Handler |-> cfg.handler,
      Description |-> cfg.description,
      Timeout |-> cfg.timeout,
      MemorySize |-> cfg.memorySize,
      Environment |-> IF Truthy(cfg.environment)
                      THEN Some([ Variables |-> cfg.environment[1] ]) ELSE None,
      Layers |-> OrElse(cfg.layers, << >>) ]

OldParams(type, cfg) ==
    IF type = "code" THEN CodeParams(cfg) ELSE OldConfigParams(cfg)

OldApplied(r, type, cfg) ==
    IF type = "code" THEN CodeUpdated(r, CodeParams(cfg))
    ELSE ConfigUpdated(r, OldConfigParams(cfg))

\* The older deploy: the test that gates updateFunctionConfig
OldConfigAffecting(cfg) ==
    \/ Truthy(cfg.layers)
    \/ Truthy(cfg.environment)
    \/ (cfg.timeout # None /\ cfg.timeout[1] # 0)
    \/ (cfg.memorySize # None /\ cfg.memorySize[1] # 0)

\* Where the older deploy goes on when an update method has returned.
OldAfterUpdate(type, cfg) ==
    IF type = "code" /\ OldConfigAffecting(cfg) THEN "old_config" ELSE "sync_enter"

\* One round of the loop of an older update method.
OldAttempt(type) ==
    /\ \/ /\ log' = Append(log, Entry(Command(type), OldParams(type, config), "ok"))
          /\ remote' = OldApplied(remote, type, config)
          /\ result' = "ok"
          /\ pc' = OldAfterUpdate(type, config)
          /\ i' = 0
          /\ err' = err
       \/ \E e \in RemoteErrors :
          /\ remote' = remote
          /\ IF OldShouldRetry(e, i)
             THEN /\ log' = log \o << Entry(Command(type), OldParams(type, config), e.name),
                                      Entry("wait", OldWaitTime(type), "ok") >>
                  /\ i' = IF i + 1 < MaxAttempts THEN i + 1 ELSE 0
                  /\ pc' = IF i + 1 < MaxAttempts THEN pc
                           ELSE OldAfterUpdate(type, config)
                  /\ result' = IF i + 1 < MaxAttempts THEN result ELSE "undefined"
                  /\ err' = err
             ELSE /\ log' = Append(log, Entry(Command(type), OldParams(type, config),
                                              e.name))
                  /\ i' = i
                  /\ pc' = ThrowTo(caller)
                  /\ result' = result
                  /\ err' = e
    /\ updateType' = type
    /\ UNCHANGED << options, config, lambda, caller, zip, elapsed, polls, triggers,
                    existing, idx, obs >>

\* The older deploy: await this.updateFunction(functionName, zipPath)
OldUpdateFunction ==
    /\ pc = "old_code"
    /\ OldAttempt("code")

\* The older deploy: await this.updateFunctionConfig(config)
OldUpdateFunctionConfig ==
    /\ pc = "old_config"
    /\ OldAttempt("configuration")

InitOld ==
    /\ options = [ region |-> None, profile |-> None ]
    /\ config \in { c \in Configs : Truthy(c.functionName) }
    /\ lambda = NewClient(options)
    /\ caller = "deploy"
    /\ pc = "old_code"
    /\ err = NoError
    /\ zip = TRUE
    /\ i = 0
    /\ updateType = ""
    /\ result = "none"
    /\ elapsed = 0
    /\ polls = 0
    /\ triggers = << >>
    /\ existing = << >>
    /\ idx = 1
    /\ remote \in { r \in Remotes : r.fn.exists }
    /\ log = << Entry("GetFunction", "exists", "ok") >>
    /\ obs = NoObs

NextOld ==
    \/ OldUpdateFunction
    \/ OldUpdateFunctionConfig
    \/ AfterReconcile
    \/ SyncCall
    \/ ListMappings
    \/ SyncTrigger
    \/ SyncDelete
    \/ Cleanup

SpecOld == InitOld /\ [][NextOld]_vars

----------------------------------------------------------------------------
(* Vocabulary of the properties: what the log of a run shows.              *)

Sent(cmd) == { k \in DOMAIN log : log[k].cmd = cmd }

CodeRequests == Sent("UpdateFunctionCode")
ConfigRequests == Sent("UpdateFunctionConfiguration")
PollRequests == { k \in Sent("GetFunction") : log[k].arg = "poll" }

TriggerCommands ==
    { "ListEventSourceMappings", "CreateEventSourceMapping",
      "UpdateEventSourceMapping", "DeleteEventSourceMapping" }

MutatingCommands ==
    { "CreateFunction", "UpdateFunctionCode", "UpdateFunctionConfiguration",
      "CreateEventSourceMapping", "UpdateEventSourceMapping",
      "DeleteEventSourceMapping" }

TriggerRequests == { k \in DOMAIN log : log[k].cmd \in TriggerCommands }
MutatingRequests == { k \in DOMAIN log : log[k].cmd \in MutatingCommands }

\* The existence query of the run was answered: the function exists / is absent.
FunctionFound ==
    caller = "deploy" /\ log # << >> /\ log[1].cmd = "GetFunction" /\ log[1].res = "ok"
FunctionAbsent ==
    caller = "deploy" /\ log # << >> /\ log[1].cmd = "GetFunction"
    /\ log[1].res = NotFound.name

\* The run is past the function's reconciliation without an error.
Reconciled ==
    \/ pc \in { "sync_enter", "sync_call", "list_send", "sync_loop", "sync_delete" }
    \/ pc \in { "finally", "done" } /\ err = NoError
    \/ TriggerRequests # {}

\* The requests of S are one call under the retry policy: every request but
\* the last was answered by a conflict and followed by one wait and the next
\* request.
OneRetriedCall(S) ==
    /\ Cardinality(S) <= 3
    /\ \A k \in S :
          (\E n \in S : n > k) =>
              /\ log[k].res = Conflict.name
              /\ k + 2 \in S
              /\ log[k + 1].cmd = "wait"

----------------------------------------------------------------------------
(* C1: against an existing function with a configuration-affecting field   *)
(* set, the code update comes first, readiness polls follow it and one of  *)
(* them observes the ready condition before any configuration-update       *)
(* request is sent; the configuration update is one call, and a run that   *)
(* gets past the reconciliation has had it succeed exactly once.           *)
C1_CodePollConfigOrder ==
    (FunctionFound /\ ConfigAffecting(config)) =>
        /\ \A p \in PollRequests :
              /\ \A c \in CodeRequests : c < p
              /\ \E c \in CodeRequests : log[c].res = "ok"
        /\ \A k \in ConfigRequests :
              /\ obs.ready
              /\ obs.returnedOn # None
              /\ PollRequests # {}
              /\ \A p \in PollRequests : p < k
              /\ \A c \in CodeRequests : c < k
        /\ OneRetriedCall(ConfigRequests)
        /\ Reconciled =>
              Cardinality({ k \in ConfigRequests : log[k].res = "ok" }) = 1

C1_Witness ==
    /\ FunctionFound
    /\ ConfigAffecting(config)
    /\ pc = "done"
    /\ \E k \in ConfigRequests : log[k].res = "ok"

(* C2: once a readiness poll has shown LastUpdateStatus = Failed the run   *)
(* is aborting with 'Previous update failed': it polls no more, and it has *)
(* sent no configuration-update request and no trigger request.            *)
C2_FailedStatusAborts ==
    (caller = "deploy" /\ obs.failed) =>
        /\ pc \in { "finally", "failed" }
        /\ err = Error("Previous update failed")
        /\ ConfigRequests = {}
        /\ TriggerRequests = {}

C2_Witness ==
    /\ caller = "deploy"
    /\ obs.failed
    /\ pc = "failed"
    /\ err.message = "Previous update failed"

(* C3: when the function is absent and roleArn is supplied, the run sends  *)
(* one create-function request, with every supplied field and the default  *)
(* of every unset one (handler 'lambda.handler', timeout 30, memory 128,   *)
(* no layers), and no code-update, configuration-update or poll request.   *)
C3_CreateOnceWithDefaults ==
    (FunctionAbsent /\ Truthy(config.roleArn)) =>
        /\ CodeRequests = {}
        /\ ConfigRequests = {}
        /\ PollRequests = {}
        /\ Cardinality(Sent("CreateFunction")) = IF pc = "create_send" THEN 0 ELSE 1
        /\ \A k \in Sent("CreateFunction") :
              LET a == log[k].arg
              IN  /\ a.FunctionName = config.functionName
                  /\ a.Role = config.roleArn
                  /\ a.Code = "zip"
                  /\ a.Handler = IF config.handler = None THEN "lambda.handler"
                                 ELSE config.handler[1]
                  /\ a.Timeout = IF config.timeout = None THEN 30
                                 ELSE config.timeout[1]
                  /\ a.MemorySize = IF config.memorySize = None THEN 128
                                    ELSE config.memorySize[1]
                  /\ a.Layers = IF config.layers = None THEN << >>
                                ELSE config.layers[1]
                  /\ config.runtime # None => a.Runtime = config.runtime[1]
                  /\ config.description # None => a.Description = config.description[1]
                  /\ a.Environment =
                        IF config.environment = None THEN None
                        ELSE Some([ Variables |-> config.environment[1] ])

C3_Witness ==
    /\ FunctionAbsent
    /\ Truthy(config.roleArn)
    /\ pc = "done"
    /\ config.timeout = None
    /\ config.layers # None
    /\ Cardinality(Sent("CreateFunction")) = 1

(* C4: when the function is absent and no roleArn is supplied, the run     *)
(* fails with 'roleArn is required for creating new functions' and has     *)
(* sent no mutating request.                                               *)
C4_NoRoleNoMutation ==
    (FunctionAbsent /\ ~Truthy(config.roleArn)) =>
        /\ pc \in { "finally", "failed" }
        /\ err = Error("roleArn is required for creating new functions")
        /\ MutatingRequests = {}

C4_Witness ==
    /\ FunctionAbsent
    /\ ~Truthy(config.roleArn)
    /\ pc = "failed"
    /\ err.message = "roleArn is required for creating new functions"

(* C5, as stated: against an existing function with no configuration-      *)
(* affecting field set, a finished run has sent exactly one code-update    *)
(* request, no configuration-update request and no readiness poll.         *)
C5_ExactlyOneCodeRequest ==
    (FunctionFound /\ ~ConfigAffecting(config) /\ pc \in { "done", "failed" }) =>
        /\ Cardinality(CodeRequests) = 1
        /\ ConfigRequests = {}
        /\ PollRequests = {}

(* C5, amended: such a run makes one code-update call: the request is sent *)
(* once and sent again only after a conflict signal, three times at most,  *)
(* and succeeds at most once (exactly once when the run gets past the      *)
(* reconciliation); it sends no configuration-update request and no poll.  *)
C5_OneCodeCallNoConfig ==
    (FunctionFound /\ ~ConfigAffecting(config)) =>
        /\ ConfigRequests = {}
        /\ PollRequests = {}
        /\ OneRetriedCall(CodeRequests)
        /\ pc \in { "done", "failed" } => Cardinality(CodeRequests) \in 1..3
        /\ Cardinality({ k \in CodeRequests : log[k].res = "ok" }) =
              IF Reconciled THEN 1 ELSE 0
        /\ remote.fn.confUpdates = 0

C5_Witness ==
    /\ FunctionFound
    /\ ~ConfigAffecting(config)
    /\ pc = "done"
    /\ Cardinality(CodeRequests) = 2

(* C6: updateWithRetry sends its command at most 3 times, whatever the     *)
(* remote answers.                                                         *)
C6_AtMostThreeSends ==
    /\ Cardinality(CodeRequests) <= 3
    /\ Cardinality(ConfigRequests) <= 3
    /\ pc = "retry_send" => i < 3

C6_Witness ==
    /\ Cardinality(CodeRequests) = 3
    /\ Cardinality(ConfigRequests) = 3

\* The k-th log entry is the third request of its command.
ThirdAttempt(k) == Cardinality({ n \in Sent(log[k].cmd) : n <= k }) = 3

(* C7: an attempt of updateWithRetry that fails with an error other than   *)
(* ResourceConflictException, or with that one on the third attempt, is    *)
(* the last thing the run sends: no wait and no attempt follows, and the   *)
(* run is failing with that error.                                         *)
C7_TerminalErrorPropagates ==
    \A k \in CodeRequests \cup ConfigRequests :
        (log[k].res # "ok" /\ (log[k].res # Conflict.name \/ ThirdAttempt(k))) =>
            /\ k = Len(log)
            /\ err \in RemoteErrors
            /\ err.name = log[k].res
            /\ pc \in { "finally", "failed" }

C7_Witness ==
    /\ pc = "failed"
    /\ Cardinality(ConfigRequests) = 2
    /\ log[Len(log)].cmd = "UpdateFunctionConfiguration"
    /\ log[Len(log)].res = Throttled.name

Last(S) == CHOOSE n \in S : \A m \in S : m <= n

\* updateWithRetry is running for the command.
Retrying(cmd) == pc \in { "retry_send", "retry_wait" } /\ Command(updateType) = cmd

(* C8: updateWithRetry ends by returning the result of a successful send   *)
(* or by raising the error of its last attempt; it never leaves its loop   *)
(* with no result.                                                         *)
C8_ReturnsOrRaises ==
    /\ result # "undefined"
    /\ pc = "retry_wait" => i + 1 < MaxAttempts
    /\ \A cmd \in { "UpdateFunctionCode", "UpdateFunctionConfiguration" } :
          (Sent(cmd) # {} /\ ~Retrying(cmd)) =>
              LET last == log[Last(Sent(cmd))]
              IN  \/ last.res = "ok" /\ result = "ok"
                  \/ /\ last.res # "ok"
                     /\ err.name = last.res
                     /\ pc \in { "finally", "failed" }

C8_Witness ==
    /\ pc = "failed"
    /\ err = Conflict
    /\ Cardinality(CodeRequests) = 3
    /\ log[Len(log)].cmd = "UpdateFunctionCode"
    /\ result = "none"

\* The requests of the command up to its successful one are conflicts, each
\* followed by its backoff wait: (i + 1) * 30 s before attempt i + 2.
ConflictsThenSuccess(S, k) ==
    /\ \A n \in S : n <= k
    /\ \A n \in S \ { k } :
          /\ log[n].res = Conflict.name
          /\ log[n + 1] = Entry("wait", 30000 * Cardinality({ m \in S : m <= n }), "ok")
          /\ n + 2 \in S

(* C9: a call under updateWithRetry that succeeds, at the first attempt or *)
(* after conflict signals on the attempts before it, returns the same      *)
(* result and leaves the same remote state: the command applied once.  The *)
(* runs differ only in the backoff waits, one after each conflict (two     *)
(* when the third attempt succeeds).                                       *)
C9_RetryIdempotent ==
    /\ \A k \in CodeRequests :
          log[k].res = "ok" =>
              /\ ConflictsThenSuccess(CodeRequests, k)
              /\ result = "ok"
              /\ remote.fn.codeUpdates = 1
              /\ remote.fn.code = log[k].arg.ZipFile
    /\ \A k \in ConfigRequests :
          log[k].res = "ok" =>
              /\ ConflictsThenSuccess(ConfigRequests, k)
              /\ result = "ok"
              /\ remote.fn.confUpdates = 1
              /\ remote.fn.conf = Some(log[k].arg)

C9_Witness ==
    /\ Cardinality(CodeRequests) = 3
    /\ log[Last(CodeRequests)].res = "ok"
    /\ Cardinality(Sent("wait")) = 2
    /\ remote.fn.codeUpdates = 1
    /\ pc = "done"

\* The remote mappings as the listing of the pass returned them.
ListedBefore == IF existing = None THEN << >> ELSE existing[1]

ConfiguredQueues == { triggers[k].queueArn : k \in DOMAIN triggers }
MappingsOf(q) == { k \in DOMAIN ListedBefore : ListedBefore[k].EventSourceArn = q }
CallsFor(cmd, q) == { k \in Sent(cmd) : log[k].arg.queue = q }

BoundQueues == { remote.mappings[k].EventSourceArn : k \in DOMAIN remote.mappings }
ListedQueues == { ListedBefore[k].EventSourceArn : k \in DOMAIN ListedBefore }

(* C11: when a pass of updateEventSourceMappings over a non-empty trigger  *)
(* list has returned, the queues bound to the function by the remote       *)
(* mappings are exactly the configured queues, whatever was bound before.  *)
C11_RemoteEqualsConfigured ==
    (caller = "updateEventSourceMappings" /\ pc = "returned" /\ triggers # << >>) =>
        BoundQueues = ConfiguredQueues

C11_Witness ==
    /\ caller = "updateEventSourceMappings"
    /\ pc = "returned"
    /\ Len(triggers) = 2
    /\ Cardinality(ListedQueues) = 2
    /\ Cardinality(ListedQueues \cap ConfiguredQueues) = 1
    /\ BoundQueues = ConfiguredQueues
    /\ Sent("CreateEventSourceMapping") # { }
    /\ Sent("DeleteEventSourceMapping") # { }

(* C12: in a pass of updateEventSourceMappings, whatever the trigger list  *)
(* and the remote mappings, at most one create request is sent per queue,  *)
(* and none for a queue that the listing showed a mapping of.              *)
C12_NeverTwoCreates ==
    (caller = "updateEventSourceMappings") =>
        \A q \in Queues :
            /\ Cardinality(CallsFor("CreateEventSourceMapping", q)) <= 1
            /\ MappingsOf(q) # { } => CallsFor("CreateEventSourceMapping", q) = { }

(* C13: a call of updateEventSourceMappings with an empty trigger list     *)
(* returns at once: every step of it leaves the log of requests empty and  *)
(* the remote side as it was, whatever mappings exist there.               *)
C13_EmptyListNoCalls ==
    [][ (caller = "updateEventSourceMappings" /\ triggers = << >>) =>
            /\ log = << >>
            /\ log' = << >>
            /\ remote' = remote
            /\ pc' = "returned" ]_vars

C13_Witness ==
    /\ caller = "updateEventSourceMappings"
    /\ triggers = << >>
    /\ pc = "returned"
    /\ Len(remote.mappings) = 2
    /\ log = << >>

\* createZip has resolved: the run is at, or past, the existence query.
ArtifactCreated == caller = "deploy" /\ (pc = "exists_query" \/ log # << >>)

\* The run has ended: deploy has resolved, or rejected with err.
Ended == pc \in { "done", "failed" }

(* C14: once a deploy run has created the zip artifact, the artifact is on *)
(* disk while the run is under way and gone when the run has ended, be it  *)
(* in success or with the error of any later stage: the caller never has   *)
(* the error while the artifact is still there.                            *)
C14_ArtifactRemoved ==
    ArtifactCreated => (zip <=> ~Ended)

C14_Witness ==
    /\ ArtifactCreated
    /\ pc = "failed"
    /\ err = Throttled
    /\ ~zip
    /\ log[Len(log)].cmd = "DeleteEventSourceMapping"

TimeoutError == Error("Timeout waiting for function to be ready")

\* waitForFunctionReady has been called and is no longer running.
PollerLeft == PollRequests # { } /\ pc \notin { "poll_send", "poll_sleep" }

(* C15: a readiness poller that has seen neither the ready condition nor   *)
(* the Failed status when the maximum wait has elapsed raises the timeout  *)
(* error, and raises it only then; the deploy run aborts with that error   *)
(* and has sent no configuration-update request.                           *)
C15_TimeoutAborts ==
    /\ [] /\ pc = "poll_send" => elapsed < MaxWaitMs
          /\ (PollerLeft /\ ~obs.ready /\ ~obs.failed) => err = TimeoutError
          /\ err = TimeoutError =>
                /\ pc \in { "finally", "failed" }
                /\ ~obs.ready
                /\ ~obs.failed
                /\ ConfigRequests = { }
                /\ remote.fn.confUpdates = 0
                /\ TriggerRequests = { }
    /\ [][ /\ (pc = "poll_sleep" /\ elapsed + PollIntervalMs >= MaxWaitMs) =>
                  (err' = TimeoutError /\ pc' = "finally")
           /\ (err # TimeoutError /\ err' = TimeoutError) =>
                  (pc = "poll_sleep" /\ elapsed + PollIntervalMs >= MaxWaitMs) ]_vars

C15_Witness ==
    /\ pc = "failed"
    /\ err = TimeoutError
    /\ PollRequests # { }
    /\ ~obs.ready
    /\ ~obs.failed
    /\ ConfigRequests = { }

(* C16: the first request of a deploy run is the existence query.  Only    *)
(* its not-found answer reads as "function absent": the run goes on to the *)
(* create path and the answer is not the run's error.  With any other      *)
(* failure of the query the run fails with that very error, having sent    *)
(* nothing else.                                                           *)
C16_OnlyNotFoundMeansAbsent ==
    (caller = "deploy" /\ log # << >>) =>
        /\ log[1].cmd = "GetFunction"
        /\ log[1].arg = "exists"
        /\ log[1].res \notin { "ok", NotFound.name } =>
              /\ err \in RemoteErrors
              /\ err.name = log[1].res
              /\ pc \in { "finally", "failed" }
              /\ Len(log) = 1
              /\ MutatingRequests = { }
              /\ remote.fn.creates = 0
        /\ log[1].res = NotFound.name =>
              /\ CodeRequests = { }
              /\ Len(log) = 1 =>
                    \/ err = NoError /\ pc = "create_send" /\ ~RoleMissing(config)
                    \/ err = Error("roleArn is required for creating new functions")
        /\ log[1].res = "ok" => Sent("CreateFunction") = { }

C16_Witness ==
    /\ caller = "deploy"
    /\ pc = "failed"
    /\ Len(log) = 1
    /\ log[1].res = Throttled.name
    /\ err = Throttled
    /\ ~remote.fn.exists
    /\ Truthy(config.roleArn)

\* README, Configuration Options: the default of runtime
DocumentedRuntime == "nodejs18.x"

(* C17: with runtime unset, every create-function and configuration-update *)
(* request carries the documented default runtime, and the configuration   *)
(* update of a redeploy with the same config would carry the runtime the   *)
(* function was created with.                                              *)
C17_UniformDefaultRuntime ==
    (caller = "deploy" /\ config.runtime = None) =>
        /\ \A k \in Sent("CreateFunction") \cup ConfigRequests :
              log[k].arg.Runtime = DocumentedRuntime
        /\ \A k \in Sent("CreateFunction") :
              log[k].res = "ok" =>
                  ConfigParams(config).Runtime = remote.fn.conf[1].Runtime

(* C18: in the older update path a conflict signal on the first or second  *)
(* attempt of an update does not fail the run: a wait and the next attempt *)
(* follow it, three attempts at most.                                      *)
C18_OldPathRetries ==
    \A k \in CodeRequests \cup ConfigRequests :
        (log[k].res = Conflict.name /\ ~ThirdAttempt(k)) =>
            /\ err # Conflict
            /\ k < Len(log)
            /\ log[k + 1].cmd = "wait"
            /\ pc \in { "old_code", "old_config" } \/ (k + 2 <= Len(log))

(* C19: a deploy run whose config has no functionName fails with           *)
(* 'functionName is required in configuration' in its first step: it never *)
(* creates the zip artifact and never sends a request.                     *)
C19_FunctionNameRequired ==
    (caller = "deploy" /\ ~Truthy(config.functionName)) =>
        /\ pc \in { "start", "failed" }
        /\ pc = "failed" => err = Error("functionName is required in configuration")
        /\ ~zip
        /\ log = << >>
        /\ remote \in Remotes

C19_Witness ==
    /\ caller = "deploy"
    /\ ~Truthy(config.functionName)
    /\ pc = "failed"
    /\ err.message = "functionName is required in configuration"
    /\ remote.fn.exists
    /\ Truthy(config.sqsTriggers)

\* waitForFunctionReady is running.
Polling == pc \in { "poll_send", "poll_sleep" }

(* C20: waitForFunctionReady returns normally only in the step in which a  *)
(* poll is answered, without error, by State = Active and LastUpdateStatus *)
(* = Successful: the answer it returned on is always that one, and the run *)
(* never goes on to the configuration update from the wait between polls   *)
(* or on any other answer.                                                 *)
C20_ReturnsOnlyOnReady ==
    /\ [] /\ obs.returnedOn # None =>
                /\ obs.returnedOn[1].error = NoError
                /\ obs.returnedOn[1].State = "Active"
                /\ obs.returnedOn[1].LastUpdateStatus = "Successful"
          /\ (FunctionFound /\ (ConfigRequests # { } \/ Retrying("UpdateFunctionConfiguration")))
                => obs.returnedOn # None
    /\ [][ (Polling /\ ~Polling' /\ err' = NoError) =>
                /\ pc = "poll_send"
                /\ obs.returnedOn = None
                /\ obs'.returnedOn # None
                /\ pc' = "retry_send" ]_vars

C20_Witness ==
    /\ pc = "retry_send"
    /\ updateType = "configuration"
    /\ ConfigRequests = { }
    /\ obs.returnedOn # None
    /\ obs.returnedOn[1].State = "Active"
    /\ Cardinality(Sent("wait")) = 1

(* C21: a poll whose answer is neither the ready condition nor a Failed    *)
(* status, a failed query included, is not propagated: the poller goes to  *)
(* its wait without an error, and after the fixed interval it polls again  *)
(* if the maximum wait has not elapsed.  While the poller runs the run has *)
(* no error.                                                               *)
C21_TransientKeepsPolling ==
    /\ [] (Polling => err = NoError)
    /\ [][ /\ (pc = "poll_send" /\ ~obs'.ready /\ ~obs'.failed) =>
                  /\ pc' = "poll_sleep"
                  /\ err' = NoError
                  /\ polls' = polls + 1
                  /\ log' = PollLogged(log)
           /\ (pc = "poll_sleep" /\ elapsed + PollIntervalMs < MaxWaitMs) =>
                  /\ pc' = "poll_send"
                  /\ elapsed' = elapsed + PollIntervalMs
                  /\ err' = NoError ]_vars

C21_Witness ==
    /\ pc = "poll_send"
    /\ polls = 3
    /\ elapsed = 3 * PollIntervalMs + SlowCallMs
    /\ ~obs.ready
    /\ ~obs.failed
    /\ err = NoError

MaxPolls == MaxWaitMs \div PollIntervalMs

\* The backoff waits that follow a request of S.
WaitsAfter(S) == { k \in Sent("wait") : k - 1 \in S }

(* C22: every deploy run ends: deploy resolves, or rejects with an error.  *)
(* On the way waitForFunctionReady sends at most 120000 / 3000 = 40 polls  *)
(* and each updateWithRetry makes at most 3 attempts and 2 waits.          *)
C22_RunTerminates ==
    /\ [] /\ polls <= MaxPolls
          /\ pc = "poll_send" => polls < MaxPolls
          /\ Polling => polls * PollIntervalMs <= elapsed + PollIntervalMs
          /\ Cardinality(CodeRequests) <= MaxAttempts
          /\ Cardinality(ConfigRequests) <= MaxAttempts
          /\ Cardinality(WaitsAfter(CodeRequests)) <= MaxAttempts - 1
          /\ Cardinality(WaitsAfter(ConfigRequests)) <= MaxAttempts - 1
          /\ Sent("wait") = WaitsAfter(CodeRequests) \cup WaitsAfter(ConfigRequests)
    /\ <>Ended

C22_Witness ==
    /\ pc = "poll_sleep"
    /\ polls = MaxPolls
    /\ elapsed = (MaxPolls - 1) * PollIntervalMs
    /\ Cardinality(CodeRequests) = MaxAttempts
    /\ Cardinality(WaitsAfter(CodeRequests)) = MaxAttempts - 1

\* The create and update requests, the delete requests of a pass.
Upserts == Sent("CreateEventSourceMapping") \cup Sent("UpdateEventSourceMapping")
Deletes == Sent("DeleteEventSourceMapping")

\* Where the listing of the pass shows the mapping.
PosInListing(uuid) ==
    CHOOSE m \in DOMAIN ListedBefore : ListedBefore[m].UUID = uuid

(* C23: in a pass of updateEventSourceMappings the listing is the first    *)
(* request and the only one of its kind; the n-th create or update is for  *)
(* the n-th configured trigger; a delete is sent only when every           *)
(* configured trigger has had its create or update succeed; and deletes    *)
(* follow the order of the listing.                                        *)
C23_SyncOrder ==
    (caller = "updateEventSourceMappings") =>
        /\ \A k \in DOMAIN log :
              (log[k].cmd = "ListEventSourceMappings") <=> (k = 1)
        /\ (pc = "returned" /\ triggers # << >>) => log # << >>
        /\ \A k \in Upserts :
              /\ k - 1 \in DOMAIN triggers
              /\ log[k].arg.queue = triggers[k - 1].queueArn
        /\ \A d \in Deletes :
              /\ \A n \in DOMAIN triggers :
                    n + 1 \in Upserts /\ log[n + 1].res = "ok"
              /\ \A u \in Upserts : u < d
              /\ \A e \in Deletes :
                    (e < d) => PosInListing(log[e].arg.UUID) < PosInListing(log[d].arg.UUID)

C23_Witness ==
    /\ caller = "updateEventSourceMappings"
    /\ pc = "returned"
    /\ Len(triggers) = 1
    /\ Sent("CreateEventSourceMapping") = { 2 }
    /\ Deletes = { 3, 4 }
    /\ ListedBefore[1].EventSourceArn = "C"
    /\ log[3].arg.queue = "C"
    /\ log[4].arg.queue = "B"

\* The k-th log entry is attempt number Attempt(k) of its command.
Attempt(k) == Cardinality({ n \in Sent(log[k].cmd) : n <= k })

(* C24: a conflict signal on the first or second attempt of a code or      *)
(* configuration update is not fatal: the run goes on without an error to  *)
(* exactly one backoff wait and then to the next attempt of the same       *)
(* command.  The wait before the second attempt is 30 s, the one before    *)
(* the third is 60 s, strictly longer.                                     *)
C24_ConflictBacksOff ==
    \A k \in CodeRequests \cup ConfigRequests :
        (log[k].res = Conflict.name /\ Attempt(k) < MaxAttempts) =>
            /\ k = Len(log) => (pc = "retry_wait" /\ err = NoError)
            /\ k < Len(log) =>
                  /\ log[k + 1].cmd = "wait"
                  /\ log[k + 1].arg = Attempt(k) * 30000
                  /\ Attempt(k) = 2 =>
                        /\ log[k - 1].cmd = "wait"
                        /\ log[k - 1].arg < log[k + 1].arg
            /\ k + 1 = Len(log) => (pc = "retry_send" /\ err = NoError)
            /\ k + 1 < Len(log) =>
                  /\ log[k + 2].cmd = log[k].cmd
                  /\ Attempt(k + 2) = Attempt(k) + 1

C24_Witness ==
    /\ pc = "done"
    /\ Cardinality(ConfigRequests) = 3
    /\ Cardinality(WaitsAfter(ConfigRequests)) = 2
    /\ \E k \in ConfigRequests :
          /\ Attempt(k) = 2
          /\ log[k].res = Conflict.name
          /\ log[k - 1].arg = 30000
          /\ log[k + 1].arg = 60000
          /\ log[k + 2].res = "ok"

(* C25: a deploy run that has an error sends nothing more and changes      *)
(* nothing more on the remote side: it is in the finally clause or has     *)
(* rejected.  When the error is that of the configuration update, the      *)
(* function has the new code, its configuration as before, and no trigger  *)
(* request has been sent.                                                  *)
C25_NothingAfterFatalError ==
    /\ [] /\ (caller = "deploy" /\ err # NoError) => pc \in { "finally", "failed" }
          /\ (FunctionFound /\ err # NoError
                /\ log[Len(log)].cmd = "UpdateFunctionConfiguration") =>
                /\ remote.fn.code = "zip"
                /\ remote.fn.codeUpdates = 1
                /\ remote.fn.conf = None
                /\ remote.fn.confUpdates = 0
                /\ TriggerRequests = { }
    /\ [][ err # NoError => (log' = log /\ remote' = remote /\ err' = err) ]_vars

C25_Witness ==
    /\ FunctionFound
    /\ pc = "failed"
    /\ err = Throttled
    /\ log[Len(log)].cmd = "UpdateFunctionConfiguration"
    /\ remote.fn.code = "zip"
    /\ remote.fn.conf = None
    /\ config.sqsTriggers # None
    /\ config.sqsTriggers # Some(<< >>)

\* A request of the command was answered with success before log entry t.
OkBefore(cmd, t) == \E k \in Sent(cmd) : k < t /\ log[k].res = "ok"

(* C26: a deploy run goes through artifact build, function reconciliation, *)
(* trigger synchronization, cleanup, in this order: requests are sent only *)
(* while the finished artifact is on disk, and every event-source-mapping  *)
(* request comes after the successful create of the function, or after its *)
(* successful code update and, when a configuration-affecting field is     *)
(* set, its successful configuration update.                               *)
C26_PhaseOrder ==
    /\ [] (caller = "deploy" =>
            /\ log # << >> => pc \notin { "start", "zip" }
            /\ \A t \in TriggerRequests :
                  /\ FunctionAbsent => OkBefore("CreateFunction", t)
                  /\ FunctionFound =>
                        /\ OkBefore("UpdateFunctionCode", t)
                        /\ ConfigAffecting(config) =>
                              OkBefore("UpdateFunctionConfiguration", t)
                  /\ \A k \in MutatingRequests \ TriggerRequests : k < t)
    /\ [][ log' # log => (zip /\ zip' /\ pc \notin { "start", "zip", "finally" }) ]_vars

C26_Witness ==
    /\ FunctionFound
    /\ ConfigAffecting(config)
    /\ pc = "done"
    /\ ~zip
    /\ Deletes # { }
    /\ Cardinality(ConfigRequests) = 2

\* The options of the constructor overridden field by field by the config.
MergedClient ==
    [ region |-> IF Truthy(config.region) THEN config.region[1]
                 ELSE IF Truthy(options.region) THEN options.region[1]
                 ELSE "eu-central-1",
      profile |-> IF Truthy(config.profile) THEN config.profile ELSE options.profile ]

(* C27: the client a deploy run sends its requests with has the config's   *)
(* region if set, else the constructor's, else 'eu-central-1', and the     *)
(* config's profile if set, else the constructor's.                        *)
C27_ClientFromMergedOptions ==
    (caller = "deploy" /\ pc # "start") => lambda = MergedClient

(* C28: every create or update of a mapping carries the trigger's batch    *)
(* size, or 10 when unset; its batching window, or 0 when unset; and its   *)
(* enabled flag, or true when unset, so that a configured false is sent as *)
(* false.  A create carries the function name and the queue, an update the *)
(* identifier of the listed mapping of that queue.                         *)
C28_TriggerSettingsSent ==
    (caller = "updateEventSourceMappings") =>
        \A k \in Upserts :
            LET t == triggers[k - 1]
                a == log[k].arg
            IN  /\ a.settings.BatchSize =
                      IF t.batchSize = None THEN 10 ELSE t.batchSize[1]
                /\ a.settings.MaximumBatchingWindowInSeconds =
                      IF t.maxBatchingWindow = None THEN 0 ELSE t.maxBatchingWindow[1]
                /\ a.settings.Enabled =
                      IF t.enabled = None THEN TRUE ELSE t.enabled[1]
                /\ log[k].cmd = "CreateEventSourceMapping" =>
                      /\ a.FunctionName = config.functionName
                      /\ a.queue = t.queueArn
                      /\ MappingsOf(t.queueArn) = { }
                /\ log[k].cmd = "UpdateEventSourceMapping" =>
                      \E m \in MappingsOf(t.queueArn) : a.UUID = ListedBefore[m].UUID

C28_Witness ==
    /\ caller = "updateEventSourceMappings"
    /\ pc = "returned"
    /\ Len(triggers) = 2
    /\ log[2].cmd = "UpdateEventSourceMapping"
    /\ triggers[1].enabled = Some(FALSE)
    /\ triggers[1].batchSize = None
    /\ log[2].arg.settings = [ BatchSize |-> 10, MaximumBatchingWindowInSeconds |-> 0,
                               Enabled |-> FALSE ]
    /\ log[3].cmd = "CreateEventSourceMapping"
    /\ triggers[2].enabled = None
    /\ log[3].arg.settings.Enabled

\* The requests of the command sent since log entry m.
SentSince(cmd, m) == { k \in Sent(cmd) : k > m }

(* C29: a second pass of updateEventSourceMappings with the same non-empty *)
(* list, right after a pass that returned, sends no create and no delete   *)
(* and leaves the remote mappings, with their batch size, window and       *)
(* enabled flag, as the first pass left them; when it has returned it has  *)
(* sent one listing and exactly one update per configured trigger.         *)
C29_SecondPassOnlyUpdates ==
    \A m \in Sent("call") :
        /\ SentSince("CreateEventSourceMapping", m) = { }
        /\ SentSince("DeleteEventSourceMapping", m) = { }
        /\ remote.mappings = log[m].arg
        /\ pc = "returned" =>
              /\ Cardinality(SentSince("ListEventSourceMappings", m)) = 1
              /\ Cardinality(SentSince("UpdateEventSourceMapping", m)) = Len(triggers)
              /\ \A n \in DOMAIN triggers :
                    Cardinality({ k \in SentSince("UpdateEventSourceMapping", m) :
                                    log[k].arg.queue = triggers[n].queueArn }) = 1

C29_Witness ==
    /\ pc = "returned"
    /\ Len(triggers) = 2
    /\ \E m \in Sent("call") :
          /\ Cardinality(SentSince("UpdateEventSourceMapping", m)) = 2
          /\ \E k \in Sent("CreateEventSourceMapping") : k < m
          /\ \E k \in Sent("DeleteEventSourceMapping") : k < m
          /\ \E k \in DOMAIN remote.mappings : ~remote.mappings[k].Enabled
====
